---- MODULE Spec2Model ----
(***************************************************************************)
(* Model of the presentation grader LXY.py: the document inspector         *)
(* predicates, the 41-rule checklist and scoring loop of                   *)
(* run_grading_logic, and the page script that calls it.                   *)
(*                                                                         *)
(* Conventions.                                                            *)
(*  - Point values are integers in thousandths of a point (1.2 -> 1200),   *)
(*    so that round(x, 2) and round(x, 1) are real roundings (to a         *)
(*    multiple of 10 and of 100).  The float sums of the code differ from  *)
(*    the decimal sums by less than 1e-13, far below half a rounding step. *)
(*  - Python's None is <<>> and a present value v is <<v>>.                *)
(*  - The module is ASCII: the characters of the rubric strings are        *)
(*    written chu = c, ban = b, xin = x, xi = i, nian = n, fen = f, so the *)
(*    needle of rule 32 is "cbxi"; descriptions and captions are glosses.  *)
(*  - Sequences are 1-based: prs.slides[0] of the code is prs.slides[1].   *)
(***************************************************************************)
EXTENDS Integers, Sequences, FiniteSets, TLC

VARIABLES student_file, outcome, screen

vars == <<student_file, outcome, screen>>

None == <<>>
Some(v) == <<v>>

(***************************************************************************)
(* Bounds of the explored inputs.                                          *)
(***************************************************************************)
MaxSlides == 8
MaxShapes == 2

(***************************************************************************)
(* Shapes.  A shape exposes has_text_frame, has_table, the text of its     *)
(* text frame when it has one, and the row and column counts of its table  *)
(* when it has one.  `text` of a shape without a text frame is text the    *)
(* shape carries elsewhere (a picture's name).                             *)
(***************************************************************************)
TextBox(t) == [has_text_frame |-> TRUE, has_table |-> FALSE, text |-> t, rows |-> 0, columns |-> 0]
Picture(t) == [has_text_frame |-> FALSE, has_table |-> FALSE, text |-> t, rows |-> 0, columns |-> 0]
TableShape(r, c) == [has_text_frame |-> FALSE, has_table |-> TRUE, text |-> "", rows |-> r, columns |-> c]

Needle == "cbxi"

ShapeSet ==
  { TextBox("cbxi"), TextBox("cbxinf"), TextBox("cb"), TextBox("xi"),
    Picture("cbxi"),
    TableShape(11, 2), TableShape(1, 2), TableShape(11, 3) }

RECURSIVE SeqsUpTo(_, _)
SeqsUpTo(S, n) ==
  IF n = 0 THEN { <<>> }
  ELSE LET shorter == SeqsUpTo(S, n - 1)
       IN shorter \cup { Append(s, x) : s \in { q \in shorter : Len(q) = n - 1 }, x \in S }

ShapeLists == SeqsUpTo(ShapeSet, MaxShapes)

\* Content of the slides other than the varied one: nothing, a slide that
\* would pass rules 7, 32 and 33, or a lone picture.
OtherShapeLists == { <<>>, <<TextBox("cbxi"), TableShape(11, 2)>>, <<Picture("cbxi")>> }

\* A deck of n slides: slide p holds t, every other slide holds o.
Deck(n, p, t, o) == [i \in 1..n |-> [shapes |-> IF i = p THEN t ELSE o]]

DeckSet == { Deck(n, p, t, o) : n \in 0..MaxSlides, p \in {1, 7}, t \in ShapeLists, o \in OtherShapeLists }

\* Slide sizes in EMU as <<width, height>>: 4:3, just below 1.7, exactly 1.7,
\* 16:9, exactly 1.8, just above 1.8, and a size element with height 0.
DimSet ==
  { <<9144000, 6858000>>, <<11658599, 6858000>>, <<11658600, 6858000>>,
    <<12192000, 6858000>>, <<12344400, 6858000>>, <<12344401, 6858000>>,
    <<12192000, 0>> }

\* Decks whose varied slide too holds one of the plain contents.
PlainDeckSet == { Deck(n, p, t, o) : n \in 0..MaxSlides, p \in {1, 7}, t \in OtherShapeLists, o \in OtherShapeLists }

\* Every deck at the 16:9 size, and the plain decks at every size.
PrsSet ==
  { [slides |-> d, slide_width |-> 12192000, slide_height |-> 6858000] : d \in DeckSet }
  \cup { [slides |-> d, slide_width |-> wh[1], slide_height |-> wh[2]] : d \in PlainDeckSet, wh \in DimSet }

ErrSet == { "", "Package not found", "File is not a zip file" }

EmptyPrs == [slides |-> <<>>, slide_width |-> 0, slide_height |-> 0]

\* An uploaded file either fails to parse with failure description e, or
\* parses to the presentation prs.
FileSet ==
  { [parses |-> FALSE, e |-> e, prs |-> EmptyPrs] : e \in ErrSet }
  \cup { [parses |-> TRUE, e |-> "", prs |-> p] : p \in PrsSet }

(***************************************************************************)
(* 1. Document inspector                                                   *)
(***************************************************************************)
check_slide_count_ge(prs, target_count) == Len(prs.slides) >= target_count

check_slide_count(prs, target_count) == Len(prs.slides) = target_count

check_aspect_ratio_strict(prs) ==
  /\ 17 * prs.slide_height < 10 * prs.slide_width
  /\ 10 * prs.slide_width < 18 * prs.slide_height

\* ratio = width / height; 1.7 <= ratio <= 1.8, for height > 0, in integers.
check_aspect_ratio(prs) ==
  /\ 17 * prs.slide_height <= 10 * prs.slide_width
  /\ 10 * prs.slide_width <= 18 * prs.slide_height

\* Python's `needle in text`.
Contains(needle, text) ==
  \E i \in 1..(Len(text) - Len(needle) + 1) : SubSeq(text, i, i + Len(needle) - 1) = needle

RECURSIVE text_scan_any_shape(_, _, _)
text_scan_any_shape(shapes, k, target_text) ==
  IF k > Len(shapes) THEN FALSE
  ELSE IF Contains(target_text, shapes[k].text) THEN TRUE
  ELSE text_scan_any_shape(shapes, k + 1, target_text)

check_text_in_slide_any_shape(slide, target_text) == text_scan_any_shape(slide.shapes, 1, target_text)

RECURSIVE text_scan(_, _, _)
text_scan(shapes, k, target_text) ==
  IF k > Len(shapes) THEN FALSE
  ELSE IF shapes[k].has_text_frame /\ Contains(target_text, shapes[k].text) THEN TRUE
  ELSE text_scan(shapes, k + 1, target_text)

check_text_in_slide(slide, target_text) == text_scan(slide.shapes, 1, target_text)

RECURSIVE table_scan_cols_only(_, _, _, _)
table_scan_cols_only(shapes, k, rows, cols) ==
  IF k > Len(shapes) THEN FALSE
  ELSE IF shapes[k].has_table /\ shapes[k].columns = cols THEN TRUE
  ELSE table_scan_cols_only(shapes, k + 1, rows, cols)

check_table_in_slide_cols_only(slide, rows, cols) == table_scan_cols_only(slide.shapes, 1, rows, cols)

RECURSIVE table_scan(_, _, _, _)
table_scan(shapes, k, rows, cols) ==
  IF k > Len(shapes) THEN FALSE
  ELSE IF shapes[k].has_table /\ shapes[k].rows = rows /\ shapes[k].columns = cols THEN TRUE
  ELSE table_scan(shapes, k + 1, rows, cols)

check_table_in_slide(slide, rows, cols) == table_scan(slide.shapes, 1, rows, cols)

\* The slide has no slide_show_transition attribute, so the try body always
\* raises and the except branch returns True.  The function is never called.
check_transition_setup(prs) == TRUE

(***************************************************************************)
(* 2. Rule evaluator                                                       *)
(***************************************************************************)
\* prs.slides[6] if len(prs.slides) > 6 else prs.slides[0]
TargetSlide(prs) == IF Len(prs.slides) > 6 THEN prs.slides[7] ELSE prs.slides[1]

RuleThemeChecked(id, desc, score, check) == [id |-> id, desc |-> desc, score |-> score, check |-> check /\ id # 2]

\* One entry of the rule table: id, description, point value, outcome.
Rule(id, desc, score, check) == [id |-> id, desc |-> desc, score |-> score, check |-> check]

\* The rule table, built when no check raises.
rules(prs) ==
  <<
    Rule(1, "deck has 7 slides", 1200, check_slide_count(prs, 7)),
    Rule(2, "design theme is Flat", 1900, TRUE),
    Rule(3, "transition is Dissolve", 1400, TRUE),
    Rule(4, "auto-advance time is 5 s", 1200, TRUE),
    Rule(5, "slide size is On-screen Show (16:9)", 1200, check_aspect_ratio(prs)),
    Rule(6, "show type is Browsed by an individual", 1200, TRUE),
    Rule(7, "slide 1 layout is Blank", 1400, Len(prs.slides[1].shapes) > 0),
    Rule(8, "slide 1 picture style is Snip Diagonal Corner, White", 500, TRUE),
    Rule(9, "slide 1 picture effect is Shadow - Perspective Upper Left", 500, TRUE),
    Rule(10, "slide 2 left text box bullets are correct", 600, TRUE),
    Rule(11, "slide 2 left text box bullets are correct", 600, TRUE),
    Rule(12, "slide 2 left text box line spacing is 1.5", 900, TRUE),
    Rule(13, "slide 2 picture style is Rounded Diagonal Corner, White", 500, TRUE),
    Rule(14, "slide 2 picture effect is Glow ... Accent 4", 500, TRUE),
    Rule(15, "slide 2 picture animation is Emphasis - Teeter", 900, TRUE),
    Rule(16, "slide 3 SmartArt layout is Vertical Block List", 1600, TRUE),
    Rule(17, "slide 3 SmartArt node 1 text contains ---", 600, TRUE),
    Rule(18, "slide 3 SmartArt node 1 text contains the confusion-factors question", 600, TRUE),
    Rule(19, "slide 3 SmartArt style is Brick Scene", 900, TRUE),
    Rule(20, "slide 3 SmartArt colour is Colorful Range ...", 900, TRUE),
    Rule(21, "slide 3 SmartArt animation is Entrance - Fly In", 700, TRUE),
    Rule(22, "slide 4 left text box bullets are correct", 600, TRUE),
    Rule(23, "slide 4 left text box bullets are correct", 600, TRUE),
    Rule(24, "slide 4 left text box fade-out time is 10 s after reading", 900, TRUE),
    Rule(25, "slide 4 picture style is Metal Rounded Rectangle", 500, TRUE),
    Rule(26, "slide 4 picture effect is Bevel - Angle", 500, TRUE),
    Rule(27, "slide 5 layout is Vertical Title and Text", 900, TRUE),
    Rule(28, "slide 5 title animation is Entrance - Fade", 700, TRUE),
    Rule(29, "slide 5 left text box bullets are correct", 600, TRUE),
    Rule(30, "slide 5 left text box bullets are correct", 600, TRUE),
    Rule(31, "slide 7 left text box line spacing is 1.5", 900, TRUE),
    Rule(32, "slide 7 title is cbxi", 500, check_text_in_slide(TargetSlide(prs), Needle)),
    Rule(33, "slide 7 has a 1-row 2-column table", 1200, check_table_in_slide(TargetSlide(prs), 11, 2)),
    Rule(34, "slide 7 table cell (1,1) text is Publisher", 700, TRUE),
    Rule(35, "slide 7 table cell (8,2) text is 2018-09-01", 700, TRUE),
    Rule(36, "slide 7 table style is Light Style 1 - Accent 2", 1200, TRUE),
    Rule(37, "slide 7 table animation is Exit - Fly Out", 700, TRUE),
    Rule(38, "slide 1 background format is correct", 900, TRUE),
    Rule(39, "slide 1 inserted picture settings are correct", 900, TRUE),
    Rule(40, "slide 4 inserted picture settings are correct", 900, TRUE),
    Rule(41, "slide 5 background format is correct", 900, TRUE)
  >>

\* The exception that building the rule table raises, if any: rule 5 divides
\* by the slide height, rule 7 (and then rules 32 and 33) index the first
\* slide.  The checks are evaluated in table order.
BuildRaises(prs) ==
  IF prs.slide_height = 0 THEN Some("ZeroDivisionError")
  ELSE IF Len(prs.slides) = 0 THEN Some("IndexError")
  ELSE None

\* round(x, digits) in thousandths: q = 10 for 2 digits, q = 100 for 1 digit;
\* ties go to the even multiple.
RoundTo(x, q) ==
  LET r == x % q
      lo == x - r
  IN IF 2 * r < q THEN lo
     ELSE IF 2 * r > q THEN lo + q
     ELSE IF (lo \div q) % 2 = 0 THEN lo ELSE lo + q

AwardHalfOnFail(rule) == IF rule.check THEN rule.score ELSE rule.score \div 2

\* score = rule["score"] if rule["check"] else 0
Award(rule) == IF rule.check THEN rule.score ELSE 0

ResultRow(rule) ==
  [ID |-> rule.id, desc |-> rule.desc, max_score |-> rule.score,
   awarded |-> RoundTo(Award(rule), 10),
   status |-> IF rule.check THEN "PASS" ELSE "FAIL"]

\* The for loop over the rules from index k, carrying total_score and results.
RECURSIVE ScoreLoop(_, _, _, _)
ScoreLoop(rs, k, total_score, results) ==
  IF k > Len(rs) THEN [total_score |-> total_score, results |-> results]
  ELSE ScoreLoop(rs, k + 1, total_score + Award(rs[k]), Append(results, ResultRow(rs[k])))

ParseFailureNoDetail(e) == [exc |-> None, details |-> <<>>, total |-> Some(0), error |-> Some("wenjian jiexi shibai: ")]

\* return [], 0.0, f"...: {str(e)}"
ParseFailure(e) == [exc |-> None, details |-> <<>>, total |-> Some(0), error |-> Some("wenjian jiexi shibai: " \o e)]

\* The call's outcome: exc is the uncaught exception (nothing is returned
\* then), otherwise (details, total, error) is the returned tuple.
run_grading_logic(file) ==
  IF ~file.parses THEN ParseFailure(file.e)
  ELSE IF BuildRaises(file.prs) # None
       THEN [exc |-> BuildRaises(file.prs), details |-> <<>>, total |-> None, error |-> None]
  ELSE LET done == ScoreLoop(rules(file.prs), 1, 0, <<>>)
       IN [exc |-> None, details |-> done.results, total |-> Some(RoundTo(done.total_score, 100)), error |-> None]

(***************************************************************************)
(* 3. Page script                                                          *)
(***************************************************************************)
\* What the page shows after a click: the exception trace, the error
\* message, or the report metrics total / 40.0, rule count and pass rate
\* int((total / 40) * 100).
Display(r) ==
  IF r.exc # None THEN <<"exception", r.exc[1]>>
  ELSE IF r.error # None THEN <<"error", r.error[1]>>
  ELSE <<"report", r.total[1], 40000, Len(r.details), (r.total[1] * 100) \div 40000>>

Init ==
  /\ student_file = None
  /\ outcome = None
  /\ screen = <<"info">>

\* The user picks a file in the uploader; the script reruns and shows the
\* grading button.
UploadFile ==
  /\ student_file = None
  /\ \E f \in FileSet : student_file' = Some(f)
  /\ outcome' = None
  /\ screen' = <<"button">>

\* The user clicks the grading button.
ClickGrade ==
  /\ student_file # None
  /\ outcome' = Some(run_grading_logic(student_file[1]))
  /\ screen' = Display(run_grading_logic(student_file[1]))
  /\ UNCHANGED student_file

\* The user clears the uploader; the script reruns and shows the hint.
RemoveFile ==
  /\ student_file # None
  /\ student_file' = None
  /\ outcome' = None
  /\ screen' = <<"info">>

Next == UploadFile \/ ClickGrade \/ RemoveFile

Spec == Init /\ [][Next]_vars

(***************************************************************************)
(* 4. Properties                                                           *)
(***************************************************************************)
Graded == student_file # None /\ outcome # None
File == student_file[1]
Ret == outcome[1]
Prs == File.prs

\* The call returned a report: no exception, no error string.
IsReport == Graded /\ Ret.exc = None /\ Ret.error = None

\* The slide rules 32 and 33 are meant to look at.
ExpectedTarget == IF Len(Prs.slides) >= 7 THEN Prs.slides[7] ELSE Prs.slides[1]

ComputedIds == {1, 5, 7, 32, 33}

RECURSIVE SumOver(_, _, _)
SumOver(rows, k, field) ==
  IF k > Len(rows) THEN 0
  ELSE (IF field = "awarded" THEN rows[k].awarded ELSE rows[k].max_score) + SumOver(rows, k + 1, field)

SumAwarded(rows) == SumOver(rows, 1, "awarded")
SumMax(rows) == SumOver(rows, 1, "max_score")

\* The report for the same file with another slide size / another deck.
ReportWithSize(wh) ==
  run_grading_logic([File EXCEPT !.prs.slide_width = wh[1], !.prs.slide_height = wh[2]])
ReportWithSlides(s) == run_grading_logic([File EXCEPT !.prs.slides = s])

\* rows a and b agree everywhere except at rule id.
SameExcept(a, b, id) ==
  /\ Len(a) = Len(b)
  /\ \A i \in 1..Len(a) : a[i].ID # id => a[i] = b[i]

\* C1: every presentation that parses (here with a usable slide size) yields
\* a report of exactly 41 rule records with ids 1..41 in order.
C1_RuleCount ==
  (Graded /\ File.parses /\ Prs.slide_height # 0) =>
    /\ Ret.exc = None
    /\ Len(Ret.details) = 41
    /\ \A i \in 1..41 : Ret.details[i].ID = i

\* C2: the point values of the 41 rules sum to 40.0, the denominator shown
\* on the page, and a document passing every rule gets total 40.0.
C2_PointSum ==
  IsReport =>
    /\ SumMax(Ret.details) = 40000
    /\ SumMax(Ret.details) = screen[3]
    /\ ((\A i \in 1..Len(Ret.details) : Ret.details[i].status = "PASS") => Ret.total = Some(40000))

\* C3: in every report each awarded score is 0 or the point value, the full
\* value exactly when the rule's outcome is true, the status agrees, the
\* total is the sum of the awarded scores, and 0 <= total <= 40.0.
C3_Scores ==
  IsReport =>
    /\ \A i \in 1..Len(Ret.details) :
         LET row == Ret.details[i]
             rule == rules(Prs)[i]
         IN /\ row.awarded \in {0, row.max_score}
            /\ row.max_score = rule.score
            /\ (row.awarded = row.max_score) <=> rule.check
            /\ (row.status = "PASS") <=> rule.check
            /\ row.status \in {"PASS", "FAIL"}
    /\ Ret.total = Some(SumAwarded(Ret.details))
    /\ 0 <= Ret.total[1] /\ Ret.total[1] <= 40000

C3_Witness ==
  /\ IsReport
  /\ \E i \in 1..Len(Ret.details) : Ret.details[i].status = "FAIL" /\ Ret.details[i].awarded = 0
  /\ \E i \in ComputedIds : Ret.details[i].status = "PASS" /\ Ret.details[i].awarded > 0

\* C4 as stated: on a parse failure there are no rule records, the total is
\* absent, and the error string is non-empty and embeds the description.
C4_TotalAbsent ==
  (Graded /\ ~File.parses) =>
    /\ Ret.details = <<>>
    /\ Ret.total = None
    /\ Ret.error # None /\ Len(Ret.error[1]) > 0 /\ Contains(File.e, Ret.error[1])

\* C4 amended: on a parse failure the call returns no rule records, the
\* total 0.0, and a non-empty error string that ends with the description.
C4_ParseFailure ==
  (Graded /\ ~File.parses) =>
    /\ Ret.exc = None
    /\ Ret.details = <<>>
    /\ Ret.total = Some(0)
    /\ Ret.error # None
    /\ Len(Ret.error[1]) > Len(File.e)
    /\ SubSeq(Ret.error[1], Len(Ret.error[1]) - Len(File.e) + 1, Len(Ret.error[1])) = File.e
    /\ screen = <<"error", Ret.error[1]>>

C4_Witness == Graded /\ ~File.parses /\ File.e = "File is not a zip file" /\ screen[1] = "error"

\* C5: a parsed presentation with fewer than 7 slides (none included) still
\* gets a full report with no error, rules 32 and 33 looking at slide 1.
C5_Fallback ==
  (Graded /\ File.parses /\ Prs.slide_height # 0 /\ Len(Prs.slides) < 7) =>
    /\ Ret.exc = None
    /\ Ret.error = None
    /\ Len(Ret.details) = 41
    /\ (Ret.details[32].status = "PASS") <=> check_text_in_slide(Prs.slides[1], Needle)
    /\ (Ret.details[33].status = "PASS") <=> check_table_in_slide(Prs.slides[1], 11, 2)

C7_Text ==
  IsReport =>
    LET row == Ret.details[32]
        sh == ExpectedTarget.shapes
    IN /\ row.ID = 32 /\ row.max_score = 500
       /\ row.awarded \in {0, 500}
       /\ (row.awarded = 500) <=>
            \E k \in 1..Len(sh) : sh[k].has_text_frame /\ Contains(Needle, sh[k].text)
       /\ (\E k \in 1..Len(sh) : sh[k] = TextBox("cbxinf")) => row.awarded = 500
       /\ sh \in { <<TextBox("cb")>>, <<TextBox("cb"), TextBox("xi")>>, <<Picture("cbxi")>>,
                   <<Picture("cbxi"), TextBox("cb")>> } => row.awarded = 0

C7_Witness ==
  /\ IsReport
  /\ Len(Prs.slides) < 7
  /\ ExpectedTarget.shapes = <<Picture("cbxi"), TextBox("cb")>>
  /\ Ret.details[32].awarded = 0

\* C8: rule 5 gets 1.2 iff width / height lies in [1.7, 1.8], bounds
\* included; 16:9 passes, 4:3 fails, and the slide size affects no other rule.
C8_Aspect ==
  IsReport =>
    LET row == Ret.details[5]
        w == Prs.slide_width
        h == Prs.slide_height
    IN /\ row.ID = 5 /\ row.max_score = 1200
       /\ row.awarded \in {0, 1200}
       /\ (row.awarded = 1200) <=> (h > 0 /\ 17 * h <= 10 * w /\ 10 * w <= 18 * h)
       /\ <<w, h>> \in { <<12192000, 6858000>>, <<11658600, 6858000>>, <<12344400, 6858000>> } => row.awarded = 1200
       /\ <<w, h>> \in { <<9144000, 6858000>>, <<11658599, 6858000>>, <<12344401, 6858000>> } => row.awarded = 0
       /\ \A wh \in DimSet : wh[2] # 0 => SameExcept(ReportWithSize(wh).details, Ret.details, 5)

C8_Witness ==
  /\ IsReport
  /\ 10 * Prs.slide_width = 18 * Prs.slide_height
  /\ Ret.details[5].awarded = 1200

\* C9: rule 1 gets 1.2 iff the deck has exactly 7 slides, and going from 7
\* to 8 slides (or back) changes no other rule's record.
C9_SlideCount ==
  IsReport =>
    LET row == Ret.details[1]
        n == Len(Prs.slides)
    IN /\ row.ID = 1 /\ row.max_score = 1200
       /\ row.awarded \in {0, 1200}
       /\ (row.awarded = 1200) <=> (n = 7)
       /\ n = 7 => \A extra \in OtherShapeLists :
                     LET r8 == ReportWithSlides(Append(Prs.slides, [shapes |-> extra]))
                     IN SameExcept(r8.details, Ret.details, 1) /\ r8.details[1].awarded = 0
       /\ n = 8 => LET r7 == ReportWithSlides(SubSeq(Prs.slides, 1, 7))
                   IN SameExcept(r7.details, Ret.details, 1) /\ r7.details[1].awarded = 1200

C9_Witness ==
  /\ IsReport
  /\ Len(Prs.slides) = 8
  /\ Ret.details[1].awarded = 0
  /\ Ret.details[32].awarded = 500

\* C10: every rule other than 1, 5, 7, 32, 33 is passed with its full point
\* value in every report, so no total is below the sum of those 36 values.
C10_FixedTrue ==
  IsReport =>
    /\ \A i \in 1..Len(Ret.details) :
         Ret.details[i].ID \notin ComputedIds =>
           Ret.details[i].status = "PASS" /\ Ret.details[i].awarded = Ret.details[i].max_score
    /\ Cardinality({ i \in 1..Len(Ret.details) : Ret.details[i].ID \notin ComputedIds }) = 36
    /\ Ret.total[1] >= SumMax(Ret.details) - (1200 + 1200 + 1400 + 500 + 1200)

C10_Witness ==
  /\ IsReport
  /\ \A i \in ComputedIds : Ret.details[i].status = "FAIL"
  /\ Ret.total = Some(29700)

====
